---- MODULE Spec2Model ----
(***************************************************************************)
(* A model of src/main.py: the AprilTag layout (get_corners_world_frame),  *)
(* the trajectory estimator (process_measurement_data / estimate_pose) and *)
(* the aligner and error statistics (interpolate / calculate_covariance).  *)
(*                                                                         *)
(* Lengths are in millimetres so that 0.152 m is the integer 152.  A       *)
(* floating-point quotient a/b is kept as the pair [num |-> a, den |-> b]; *)
(* den = 0 is the non-finite value (nan or +-inf) numpy yields for a       *)
(* float64 division by zero.  Arithmetic is exact: rounding is not         *)
(* modelled.                                                               *)
(***************************************************************************)
EXTENDS Integers, Sequences, FiniteSets, TLC

VARIABLES
    pc,                       \* position in the operation being run
    outcome,                  \* how the operation ended ("running" until then)
    april_tag_index,          \* argument of get_corners_world_frame
    object_points,            \* its return value
    mat_data,                 \* self.mat_contents['data']
    item,                     \* number of items of mat_data consumed by the loop
    results_np,               \* self.results_np (<<>> is None)
    emitted_from,             \* history: index in mat_data each row came from
    solver_log,               \* history: what solvePnP reported for each item
    actual_vicon_np,          \* self.actual_vicon_np (columns of vicon + time)
    actual_vicon_aligned_np,  \* self.actual_vicon_aligned_np (<<>> is None)
    idx,                      \* enumerate index of the alignment loop
    iter_log,                 \* history: locals of each alignment iteration
    diff_matrix,              \* self.diff_matrix, one error vector per column
    cov_matrix,               \* self.cov_matrix (<<>> until it is assigned)
    tag_corners_world,        \* what generate_tag_corners returned (<<>> before)
    printed                   \* the verdicts calculate_covariance has printed

vars == <<pc, outcome, april_tag_index, object_points, mat_data, item,
          results_np, emitted_from, solver_log, actual_vicon_np,
          actual_vicon_aligned_np, idx, iter_log, diff_matrix, cov_matrix,
          tag_corners_world, printed>>

(***************************************************************************)
(* Bounds                                                                  *)
(***************************************************************************)
MaxObs == 3      \* observations in mat_contents['data'] / rows of results_np
MaxGT == 3       \* ground-truth (vicon) samples
MaxTime == 3     \* timestamps are 0..MaxTime
MaxVal == 1      \* pose rows are 0 and MaxVal times the unit row
MaxTags == 2     \* tag ids in one observation
TagSlack == 2    \* tag indices tried below 0 and above the last tag

Channels == 1..6
Times == 0..MaxTime
None == <<>>

\* 0-based element access, as numpy indexes
At(s, i) == s[i + 1]

\* strictly increasing / non-decreasing timestamp sequences of length n
IncreasingTimes(n) == {s \in [1..n -> Times] : \A i \in 1..(n - 1) : s[i] < s[i + 1]}
NonDecreasingTimes(n) == {s \in [1..n -> Times] : \A i \in 1..(n - 1) : s[i] <= s[i + 1]}

\* six channel values (x, y, z, roll, pitch, yaw) of one pose
PoseRow(v) == [c \in Channels |-> v * c]
PoseRows == {PoseRow(0), PoseRow(MaxVal)}

(***************************************************************************)
(* TagLayoutModel: get_corners_world_frame                                 *)
(***************************************************************************)
square_size == 152
space_size == 152
columns_3_4_and_6_7 == 178
difference == columns_3_4_and_6_7 - square_size
LastTag == (12 * 9) - 1

\* get_corners_world_frame without the second adjustment (col >= 6)
get_corners_world_frame_one_gap(i) ==
    LET col == i \div 12
        row == i % 12
        p1_x == (row * (square_size + space_size)) + square_size
        p3_x == p1_x - square_size
        y0 == col * (square_size + space_size)
        p1_y == IF col >= 3 THEN y0 + difference ELSE y0
        p2_y == p1_y + square_size
    IN  << <<p1_x, p1_y, 0>>, <<p1_x, p2_y, 0>>,
           <<p3_x, p2_y, 0>>, <<p3_x, p1_y, 0>> >>

get_corners_world_frame(i) ==
    LET col == i \div 12
        row == i % 12
        p1_x == (row * (square_size + space_size)) + square_size
        p2_x == p1_x
        p3_x == p1_x - square_size
        p4_x == p3_x
        y0 == col * (square_size + space_size)
        y3 == IF col >= 3 THEN y0 + difference ELSE y0
        p1_y == IF col >= 6 THEN y3 + difference ELSE y3
        p2_y == p1_y + square_size
        p3_y == p2_y
        p4_y == p1_y
    IN  << <<p1_x, p1_y, 0>>, <<p2_x, p2_y, 0>>,
           <<p3_x, p3_y, 0>>, <<p4_x, p4_y, 0>> >>

TagIndices == (0 - TagSlack)..(LastTag + TagSlack)

\* a MeasurementData object about to be asked for the corners of one tag
InitLayout ==
    /\ pc = "call"
    /\ outcome = "running"
    /\ april_tag_index \in TagIndices
    /\ object_points = None
    /\ mat_data = <<>>
    /\ item = 0
    /\ results_np = None
    /\ emitted_from = <<>>
    /\ solver_log = <<>>
    /\ actual_vicon_np = <<>>
    /\ actual_vicon_aligned_np = None
    /\ idx = 0
    /\ iter_log = <<>>
    /\ diff_matrix = <<>>
    /\ cov_matrix = None
    /\ tag_corners_world = None
    /\ printed = {}

GetCorners ==
    /\ pc = "call"
    /\ object_points' = get_corners_world_frame(april_tag_index)
    /\ pc' = "done"
    /\ outcome' = "ok"
    /\ UNCHANGED <<april_tag_index, mat_data, item, results_np, emitted_from,
                   solver_log, actual_vicon_np, actual_vicon_aligned_np, idx,
                   iter_log, diff_matrix,
                   cov_matrix, tag_corners_world, printed>>

\* the y of column col: every earlier column c adds tag_size and then
\* extra_spacing_cols[c] for c in {3, 6}, spacing otherwise
RECURSIVE generated_column_y(_)
generated_column_y(col) ==
    IF col = 0 THEN 0
    ELSE generated_column_y(col - 1) + square_size
         + (IF (col - 1) \in {3, 6} THEN columns_3_4_and_6_7 - space_size
                                     ELSE space_size)

\* P1..P4 of the tag at (row, col)
generated_corners(row, col) ==
    LET x == row * (square_size + space_size)
        y == generated_column_y(col)
    IN  << <<x + square_size, y, 0>>, <<x + square_size, y + square_size, 0>>,
           <<x, y + square_size, 0>>, <<x, y, 0>> >>

\* the dictionary keyed by tag_id = col * 12 + row, row in range(12) and
\* col in range(9)
generate_tag_corners ==
    [tag_id \in {(col * 12) + row : row \in 0..11, col \in 0..8} |->
        generated_corners(tag_id % 12, tag_id \div 12)]

GenerateTagCorners ==
    /\ tag_corners_world = None
    /\ tag_corners_world' = generate_tag_corners
    /\ UNCHANGED <<pc, outcome, april_tag_index, object_points, mat_data, item,
                   results_np, emitted_from, solver_log, actual_vicon_np,
                   actual_vicon_aligned_np, idx, iter_log, diff_matrix,
                   cov_matrix, printed>>

NextLayout == GetCorners \/ GenerateTagCorners

SpecLayout == InitLayout /\ [][NextLayout]_vars

(***************************************************************************)
(* TrajectoryEstimator: estimate_pose and process_measurement_data         *)
(***************************************************************************)
\* data['id'] of one observation: a Python int (one tag) or an ndarray of
\* ntags ids
ObservationShapes ==
    {[kind |-> "int", ntags |-> 1]}
    \cup [kind : {"ndarray"}, ntags : 0..MaxTags]

\* one item of mat_contents['data'], and the same item with ninvalid, the
\* number of its tags that have a negative image-point coordinate
Observation(shape, t) == [kind |-> shape.kind, ntags |-> shape.ntags, t |-> t]
WithImagePoints(obs, ninvalid) ==
    [kind |-> obs.kind, ntags |-> obs.ntags, t |-> obs.t, ninvalid |-> ninvalid]

NoPose == [kind |-> "None", y |-> PoseRow(0), solver |-> "not_called"]
Raised == [kind |-> "raise", y |-> PoseRow(0), solver |-> "raise"]
Pose(y, retval) ==
    [kind |-> "pose", y |-> y, solver |-> IF retval THEN "success" ELSE "failure"]

\* retval is what cv2.solvePnP reports, pose what calculate_drone_position
\* makes of its rvec and tvec
estimate_pose(data, ignore_invalid, retval, pose) ==
    IF data.kind = "int"
    THEN IF ignore_invalid /\ data.ninvalid > 0
         THEN NoPose
         ELSE \* "retval is None" is never true of the bool solvePnP returns
              Pose(pose, retval)
    ELSE LET collected == IF ignore_invalid THEN data.ntags - data.ninvalid
                                            ELSE data.ntags
         IN  IF collected = 0
             THEN Raised   \* solvePnP(None, None, ...) raises
             ELSE IF ~retval
                  THEN [NoPose EXCEPT !.solver = "failure"]
                  ELSE Pose(pose, retval)

\* ResultRow stacking data['id'] in place of data['t']
ResultRow_wrong_field(y, data) == [y |-> y, t |-> data.ntags]

\* the row stacked onto results_np
ResultRow(y, data) == [y |-> y, t |-> data.t]

\* the object after loadMatlabData, at the call of process_measurement_data;
\* the timestamps of the observations increase
InitEstimator ==
    /\ pc = "process"
    /\ outcome = "running"
    /\ april_tag_index = 0
    /\ object_points = None
    /\ \E n \in 0..MaxObs :
         \E ts \in IncreasingTimes(n), shapes \in [1..n -> ObservationShapes] :
            mat_data = [i \in 1..n |-> Observation(shapes[i], ts[i])]
    /\ item = 0
    /\ results_np = None
    /\ emitted_from = <<>>
    /\ solver_log = <<>>
    /\ actual_vicon_np = <<>>
    /\ actual_vicon_aligned_np = None
    /\ idx = 0
    /\ iter_log = <<>>
    /\ diff_matrix = <<>>
    /\ cov_matrix = None
    /\ tag_corners_world = None
    /\ printed = {}

\* one iteration of "for data in self.mat_contents['data']"
ProcessItem ==
    /\ pc = "process"
    /\ item < Len(mat_data)
    /\ LET obs == mat_data[item + 1]
       IN  IF obs.kind = "ndarray" /\ obs.ntags = 0
           THEN /\ item' = item + 1
                /\ solver_log' = Append(solver_log, "not_called")
                /\ UNCHANGED <<pc, outcome, results_np, emitted_from>>
           ELSE \E ninvalid \in 0..obs.ntags, retval \in BOOLEAN, pose \in PoseRows :
                  LET data == WithImagePoints(obs, ninvalid)
                      r == estimate_pose(data, FALSE, retval, pose)
                  IN  /\ solver_log' = Append(solver_log, r.solver)
                      /\ IF r.kind = "raise"
                         THEN /\ pc' = "done"
                              /\ outcome' = "cv2.error"
                              /\ UNCHANGED <<item, results_np, emitted_from>>
                         ELSE IF r.kind = "None"
                         THEN /\ item' = item + 1
                              /\ UNCHANGED <<pc, outcome, results_np, emitted_from>>
                         ELSE /\ item' = item + 1
                              /\ results_np' = Append(results_np, ResultRow(r.y, data))
                              /\ emitted_from' = Append(emitted_from, item + 1)
                              /\ UNCHANGED <<pc, outcome>>
    /\ UNCHANGED <<april_tag_index, object_points, mat_data, actual_vicon_np,
                   actual_vicon_aligned_np, idx, iter_log, diff_matrix, cov_matrix,
                   tag_corners_world, printed>>

\* "return self.results_np" once the list is exhausted
ProcessReturn ==
    /\ pc = "process"
    /\ item = Len(mat_data)
    /\ pc' = "done"
    /\ outcome' = "ok"
    /\ UNCHANGED <<april_tag_index, object_points, mat_data, item, results_np,
                   emitted_from, solver_log, actual_vicon_np,
                   actual_vicon_aligned_np, idx, iter_log, diff_matrix, cov_matrix,
                   tag_corners_world, printed>>

NextEstimator == ProcessItem \/ ProcessReturn

SpecEstimator == InitEstimator /\ [][NextEstimator]_vars

\* the trajectories process_measurement_data can leave in results_np:
\* at most one row per observation, timestamps increasing
IsEstimatedTrajectory(r) ==
    /\ Len(r) <= MaxObs
    /\ \A i \in 1..Len(r) : r[i].y \in PoseRows /\ r[i].t \in Times
    /\ \A i \in 1..(Len(r) - 1) : r[i].t < r[i + 1].t

EstimatorOutputInRange == IsEstimatedTrajectory(results_np)

(***************************************************************************)
(* TrajectoryAligner and ErrorStatistics: interpolate, calculate_covariance*)
(***************************************************************************)
\* a sequence of rows from their channel values and timestamps
Rows(ys, ts) == [i \in 1..Len(ts) |-> [y |-> ys[i], t |-> ts[i]]]

\* interpolate measuring the offset of time_target from t2
interpolate_from_t2(time_target, t1, t2, y1, y2) ==
    [num |-> (y1 * (t2 - t1)) + ((time_target - t2) * (y2 - y1)),
     den |-> t2 - t1]

\* y1 + ((time_target - t1) * (y2 - y1) / (t2 - t1)) as one quotient
interpolate(time_target, t1, t2, y1, y2) ==
    [num |-> (y1 * (t2 - t1)) + ((time_target - t1) * (y2 - y1)),
     den |-> t2 - t1]

\* np.argmin(vicon[-1,:] < x): the first index whose timestamp is not below
\* x, and 0 when every timestamp is below x
argmin_less(vicon, x) ==
    LET notless == {j \in 0..(Len(vicon) - 1) : ~(At(vicon, j).t < x)}
    IN  IF notless = {} THEN 0
        ELSE CHOOSE j \in notless : \A k \in notless : j <= k

\* clamp_last without the step back from the last index
clamp_last_missing(vicon, min_idx) == min_idx

\* the left endpoint used once the iteration is not skipped
clamp_last(vicon, min_idx) ==
    IF min_idx = Len(vicon) - 1 THEN min_idx - 1 ELSE min_idx

\* new_row: the six interpolated channels and x
aligned_row(vicon, i, x) ==
    [y |-> [c \in Channels |->
              interpolate(x, At(vicon, i).t, At(vicon, i + 1).t,
                          At(vicon, i).y[c], At(vicon, i + 1).y[c])],
     t |-> x]

\* align_estimate without "if min_idx == 0: continue"
align_estimate_no_skip(vicon, x) ==
    LET found == argmin_less(vicon, x)
        i == clamp_last(vicon, found)
    IN  IF i < 0 \/ i + 1 > Len(vicon) - 1
        THEN [x |-> x, found |-> found, min_idx |-> i, status |-> "IndexError"]
        ELSE [x |-> x, found |-> found, min_idx |-> i, status |-> "row"]

\* the body of the alignment loop for the estimate at timestamp x:
\* found is argmin's value, min_idx the left endpoint read
align_estimate(vicon, x) ==
    LET found == argmin_less(vicon, x)
        i == clamp_last(vicon, found)
    IN  IF found = 0
        THEN [x |-> x, found |-> found, min_idx |-> found, status |-> "skipped"]
        ELSE IF i < 0 \/ i + 1 > Len(vicon) - 1
        THEN [x |-> x, found |-> found, min_idx |-> i, status |-> "IndexError"]
        ELSE [x |-> x, found |-> found, min_idx |-> i, status |-> "row"]

\* column k of aligned.T[0:6,:max_index] - results.T[0:6,:max_index]
diff_column(aligned, results, k) ==
    [c \in Channels |->
        [num |-> aligned[k].y[c].num - (results[k].y[c] * aligned[k].y[c].den),
         den |-> aligned[k].y[c].den]]

\* the product of the squared denominators of error vectors 1..k
RECURSIVE denominator_product(_, _)
denominator_product(diff, k) ==
    IF k = 0 THEN 1
    ELSE diff[k][1].den * diff[k][1].den * denominator_product(diff, k - 1)

\* entry (a, b) of the sum of the outer products of error vectors 1..k, over
\* the common denominator denominator_product(diff, Len(diff))
RECURSIVE outer_product_sum(_, _, _, _)
outer_product_sum(diff, a, b, k) ==
    IF k = 0 THEN 0
    ELSE outer_product_sum(diff, a, b, k - 1)
         + (diff[k][a].num * diff[k][b].num
            * (denominator_product(diff, Len(diff))
               \div (diff[k][1].den * diff[k][1].den)))

\* entry (a, b) of the sum when some error vector is non-finite: nan (0)
\* when a factor is nan or infinities of both signs are added, else the
\* sign of the infinity
non_finite_sum(diff, a, b) ==
    LET rows == {k \in 1..Len(diff) : diff[k][a].den = 0}
        signs == {IF diff[k][a].num * diff[k][b].num > 0 THEN 1
                  ELSE IF diff[k][a].num * diff[k][b].num < 0 THEN 0 - 1
                  ELSE 0 : k \in rows}
    IN  IF signs = {1} THEN 1 ELSE IF signs = {0 - 1} THEN 0 - 1 ELSE 0

\* temp_matrix / (diff_matrix.shape[1] - 1); a non-finite error vector makes
\* every entry non-finite (den = 0)
covariance(diff) ==
    LET n == Len(diff)
        p == denominator_product(diff, n)
    IN  [a \in Channels |-> [b \in Channels |->
            IF p = 0 THEN [num |-> non_finite_sum(diff, a, b), den |-> 0]
            ELSE [num |-> outer_product_sum(diff, a, b, n), den |-> (n - 1) * p]]]

\* np.allclose(m, m.T): finite entries are equal, infinities have the same
\* sign, and a nan is close to nothing
allclose_transpose(m) ==
    \A a \in Channels : \A b \in Channels :
        IF m[a][b].den = 0 \/ m[b][a].den = 0
        THEN /\ m[a][b].den = 0 /\ m[b][a].den = 0
             /\ m[a][b].num # 0 /\ m[a][b].num = m[b][a].num
        ELSE IF m[a][b].den = m[b][a].den
        THEN m[a][b].num = m[b][a].num
        ELSE m[a][b].num * m[b][a].den = m[b][a].num * m[a][b].den

\* the determinant of rows r.. and the columns cols of the numerators, by
\* expansion along row r
RECURSIVE determinant(_, _, _)
RECURSIVE row_expansion(_, _, _, _)
determinant(m, r, cols) ==
    IF cols = {} THEN 1 ELSE row_expansion(m, r, cols, cols)
row_expansion(m, r, cols, rest) ==
    IF rest = {} THEN 0
    ELSE LET c == CHOOSE c \in rest : \A d \in rest : c <= d
             term == m[r][c].num * determinant(m, r + 1, cols \ {c})
         IN  (IF Cardinality({d \in cols : d < c}) % 2 = 0 THEN term ELSE 0 - term)
             + row_expansion(m, r, cols, rest \ {c})

\* Euclid's algorithm on naturals
gcd[a \in Nat, b \in Nat] == IF b = 0 THEN a ELSE gcd[b, a % b]

\* the greatest common divisor of the numerators of entries 1..i of m, read
\* row by row (0 when they are all 0)
RECURSIVE numerator_gcd(_, _)
numerator_gcd(m, i) ==
    IF i = 0 THEN 0
    ELSE LET e == m[((i - 1) \div 6) + 1][((i - 1) % 6) + 1].num
         IN  gcd[numerator_gcd(m, i - 1), IF e < 0 THEN 0 - e ELSE e]

\* m divided by a positive scalar, which leaves the signs of its
\* eigenvalues as they are: the numerators in lowest terms
lowest_terms(m) ==
    LET g == numerator_gcd(m, 36)
        divisor == IF g = 0 THEN 1 ELSE g
    IN  [a \in Channels |-> [b \in Channels |->
            [num |-> m[a][b].num \div divisor, den |-> 1]]]

\* all_eigenvalues_positive deciding with >= 0
all_eigenvalues_positive_or_zero(m) ==
    LET reduced == lowest_terms(m)
    IN  \A k \in Channels : determinant(reduced, 1, 1..k) >= 0

\* np.all(np.linalg.eigvals(m) > 0) for the finite symmetric m, whose
\* entries share a positive denominator: every leading principal minor is
\* positive
all_eigenvalues_positive(m) ==
    LET reduced == lowest_terms(m)
    IN  \A k \in Channels : determinant(reduced, 1, 1..k) > 0

\* eigvals raises LinAlgError on a matrix with a nan or an infinity
is_finite(m) == \A a \in Channels : \A b \in Channels : m[a][b].den # 0

\* lines 432-442: what is printed for cov_matrix m
verdicts(m) ==
    {IF allclose_transpose(m) THEN "Covariance matrix is symmetric."
                              ELSE "Covariance matrix is not symmetric."}
    \cup (IF ~is_finite(m) THEN {}
          ELSE IF all_eigenvalues_positive(m)
          THEN {"Covariance matrix is positive definite."}
          ELSE {"Covariance matrix is not positive definite."})

\* the object at the call of calculate_covariance: results_np is a
\* trajectory process_measurement_data can leave (IsEstimatedTrajectory) and
\* the timestamps of the ground truth do not decrease
InitAligner ==
    /\ pc = "begin"
    /\ outcome = "running"
    /\ april_tag_index = 0
    /\ object_points = None
    /\ mat_data = <<>>
    /\ item = 0
    /\ \E n \in 0..MaxObs :
         \E ts \in IncreasingTimes(n), ys \in [1..n -> PoseRows] :
            results_np = Rows(ys, ts)
    /\ emitted_from = <<>>
    /\ solver_log = <<>>
    /\ \E n \in 1..MaxGT :
         \E ts \in NonDecreasingTimes(n), ys \in [1..n -> PoseRows] :
            actual_vicon_np = Rows(ys, ts)
    /\ actual_vicon_aligned_np = None
    /\ idx = 0
    /\ iter_log = <<>>
    /\ diff_matrix = <<>>
    /\ cov_matrix = None
    /\ tag_corners_world = None
    /\ printed = {}

\* lines 369-374: the None check, the reset, and results_np[:, -1], which
\* raises on the 1-D array a single pose leaves
CovarianceBegin ==
    /\ pc = "begin"
    /\ IF results_np = None
       THEN /\ pc' = "done"
            /\ outcome' = "returned None"
       ELSE IF Len(results_np) = 1
       THEN /\ pc' = "done"
            /\ outcome' = "IndexError"
       ELSE /\ pc' = "align"
            /\ UNCHANGED outcome
    /\ actual_vicon_aligned_np' = None
    /\ idx' = 0
    /\ UNCHANGED <<april_tag_index, object_points, mat_data, item, results_np,
                   emitted_from, solver_log, actual_vicon_np, iter_log,
                   diff_matrix,
                   cov_matrix, tag_corners_world, printed>>

\* lines 374-417: one iteration of the alignment loop
AlignIteration ==
    /\ pc = "align"
    /\ idx < Len(results_np)
    /\ LET x == At(results_np, idx).t
           it == align_estimate(actual_vicon_np, x)
       IN  /\ iter_log' = Append(iter_log, it)
           /\ IF it.status = "IndexError"
              THEN /\ pc' = "done"
                   /\ outcome' = "IndexError"
                   /\ UNCHANGED <<idx, actual_vicon_aligned_np>>
              ELSE /\ idx' = idx + 1
                   /\ actual_vicon_aligned_np' =
                        IF it.status = "row"
                        THEN Append(actual_vicon_aligned_np,
                                    aligned_row(actual_vicon_np, it.min_idx, x))
                        ELSE actual_vicon_aligned_np
                   /\ UNCHANGED <<pc, outcome>>
    /\ UNCHANGED <<april_tag_index, object_points, mat_data, item, results_np,
                   emitted_from, solver_log, actual_vicon_np, diff_matrix,
                   cov_matrix, tag_corners_world, printed>>

\* lines 418-444: .shape of None or of the list a single row leaves raises;
\* otherwise the error vectors and the covariance are computed and the two
\* verdicts printed, eigvals raising on a non-finite matrix
CovarianceFinish ==
    /\ pc = "align"
    /\ idx = Len(results_np)
    /\ pc' = "done"
    /\ IF Len(actual_vicon_aligned_np) < 2
       THEN /\ outcome' = "AttributeError"
            /\ UNCHANGED <<diff_matrix, cov_matrix, printed>>
       ELSE /\ diff_matrix' =
                 [k \in 1..Len(actual_vicon_aligned_np) |->
                     diff_column(actual_vicon_aligned_np, results_np, k)]
            /\ cov_matrix' = covariance(diff_matrix')
            /\ printed' = verdicts(cov_matrix')
            /\ outcome' = IF is_finite(cov_matrix') THEN "ok" ELSE "LinAlgError"
    /\ UNCHANGED <<april_tag_index, object_points, mat_data, item, results_np,
                   emitted_from, solver_log, actual_vicon_np,
                   actual_vicon_aligned_np, idx, iter_log, tag_corners_world>>

NextAligner == CovarianceBegin \/ AlignIteration \/ CovarianceFinish

SpecAligner == InitAligner /\ [][NextAligner]_vars

(***************************************************************************)
(* Properties                                                              *)
(***************************************************************************)

\* C1: every error vector is an aligned row minus the estimate row that has
\* the aligned row's own timestamp, also when estimates were skipped.
C1_ErrorPairsShareTimestamp ==
    (pc = "done" /\ outcome = "ok") =>
        \A k \in 1..Len(diff_matrix) :
            \E j \in 1..Len(results_np) :
                /\ results_np[j].t = actual_vicon_aligned_np[k].t
                /\ \A c \in Channels :
                     /\ diff_matrix[k][c].den = actual_vicon_aligned_np[k].y[c].den
                     /\ diff_matrix[k][c].num =
                          actual_vicon_aligned_np[k].y[c].num
                          - (results_np[j].y[c] * actual_vicon_aligned_np[k].y[c].den)

\* C2: the endpoints of every aligned row that is not the clamped last
\* bracket are adjacent samples i, i+1 with gt[i].t <= t < gt[i+1].t; stated
\* for endpoints of distinct timestamps.
C2_EndpointsBracketEstimate ==
    \A k \in 1..Len(iter_log) :
        (iter_log[k].status = "row"
         /\ iter_log[k].found # Len(actual_vicon_np) - 1
         /\ At(actual_vicon_np, iter_log[k].min_idx).t
              # At(actual_vicon_np, iter_log[k].min_idx + 1).t) =>
            /\ At(actual_vicon_np, iter_log[k].min_idx).t <= iter_log[k].x
            /\ iter_log[k].x < At(actual_vicon_np, iter_log[k].min_idx + 1).t

\* C3: an estimate whose two selected endpoints have equal timestamps gets
\* no aligned row, and no aligned value is the result of a division by zero.
C3_ZeroWidthBracketSkipped ==
    /\ \A k \in 1..Len(iter_log) :
         (iter_log[k].found # 0
          /\ iter_log[k].status # "IndexError"
          /\ At(actual_vicon_np, iter_log[k].min_idx).t
               = At(actual_vicon_np, iter_log[k].min_idx + 1).t) =>
            iter_log[k].status = "skipped"
    /\ \A r \in 1..Len(actual_vicon_aligned_np) :
         \A c \in Channels : actual_vicon_aligned_np[r].y[c].den # 0

\* C4: an observation with at least one tag whose pose solve reported
\* failure adds no pose and does not abort the run.
C4_FailedSolveAddsNoPose ==
    \A i \in 1..Len(solver_log) :
        (solver_log[i] \in {"failure", "raise"}) =>
            /\ \A k \in 1..Len(emitted_from) : emitted_from[k] # i
            /\ outcome \in {"running", "ok"}

\* C5: with N observations consumed, K of them without tags, at most N-K
\* poses are emitted; each pose has the timestamp of the observation it was
\* computed from, never that of a zero-detection observation, and the poses
\* are in the order of their observations.
C5_ZeroDetectionsExcluded ==
    LET zero == {i \in 1..Len(mat_data) :
                    mat_data[i].kind = "ndarray" /\ mat_data[i].ntags = 0}
    IN  /\ Len(results_np) <= item - Cardinality(zero \cap 1..item)
        /\ Len(emitted_from) = Len(results_np)
        /\ \A k \in 1..Len(results_np) :
             /\ emitted_from[k] \in (1..item) \ zero
             /\ results_np[k].t = mat_data[emitted_from[k]].t
             /\ \A i \in zero : results_np[k].t # mat_data[i].t
        /\ \A k \in 1..(Len(results_np) - 1) :
             emitted_from[k] < emitted_from[k + 1]

C5_Witness ==
    /\ pc = "done"
    /\ Len(mat_data) = 3
    /\ mat_data[2].kind = "ndarray" /\ mat_data[2].ntags = 0
    /\ emitted_from = <<1, 3>>

\* C6: when alignment yields fewer than 2 aligned pairs, calculate_covariance
\* ends with the explicit InsufficientSamples outcome.
C6_InsufficientSamplesReported ==
    (pc = "done" /\ results_np # None /\ Len(actual_vicon_aligned_np) < 2) =>
        outcome = "InsufficientSamples"

\* C7: an estimate at or after the last ground-truth timestamp gets an
\* aligned row from the last two samples (left endpoint length-2); stated
\* for a last bracket of non-zero width.
C7_LateEstimateClamped ==
    \A k \in 1..Len(iter_log) :
        (Len(actual_vicon_np) >= 2
         /\ At(actual_vicon_np, Len(actual_vicon_np) - 2).t
              < At(actual_vicon_np, Len(actual_vicon_np) - 1).t
         /\ iter_log[k].x >= At(actual_vicon_np, Len(actual_vicon_np) - 1).t) =>
            /\ iter_log[k].status = "row"
            /\ iter_log[k].min_idx = Len(actual_vicon_np) - 2

\* C8: the iteration for an estimate strictly before the first ground-truth
\* timestamp adds no aligned row, does not fail, and moves to the next
\* estimate.
C8_EarlyEstimateSkipped ==
    [][(pc = "align"
        /\ idx < Len(results_np)
        /\ At(results_np, idx).t < At(actual_vicon_np, 0).t) =>
            /\ actual_vicon_aligned_np' = actual_vicon_aligned_np
            /\ idx' = idx + 1
            /\ pc' = "align"
            /\ outcome' = "running"]_vars

C8_Witness ==
    \E k \in 1..Len(iter_log) : \E j \in 1..Len(iter_log) :
        /\ k < j
        /\ iter_log[k].x < At(actual_vicon_np, 0).t
        /\ iter_log[k].status = "skipped"
        /\ iter_log[j].status = "row"

\* C9: with ground truth (t1,y1), (t2,y2), t1 < t2, an estimate at t with
\* t1 < t <= t2 gets an aligned row whose every channel is
\* y1 + (t - t1)*(y2 - y1)/(t2 - t1); (0,0), (10,100) and t = 5 give 50.
C9_TwoSampleInterpolation ==
    /\ (Len(actual_vicon_np) = 2 /\ actual_vicon_np[1].t < actual_vicon_np[2].t) =>
         \A k \in 1..Len(iter_log) :
            (actual_vicon_np[1].t < iter_log[k].x
             /\ iter_log[k].x <= actual_vicon_np[2].t) =>
                /\ iter_log[k].status = "row"
                /\ \E r \in 1..Len(actual_vicon_aligned_np) :
                     /\ actual_vicon_aligned_np[r].t = iter_log[k].x
                     /\ \A c \in Channels :
                          LET v == actual_vicon_aligned_np[r].y[c]
                              t1 == actual_vicon_np[1].t
                              t2 == actual_vicon_np[2].t
                              y1 == actual_vicon_np[1].y[c]
                              y2 == actual_vicon_np[2].y[c]
                          IN  /\ v.den # 0
                              /\ v.num * (t2 - t1) =
                                   ((y1 * (t2 - t1)) + ((iter_log[k].x - t1) * (y2 - y1)))
                                   * v.den
    /\ LET gt == << [y |-> [c \in Channels |-> 0], t |-> 0],
                    [y |-> [c \in Channels |-> 100], t |-> 10] >>
           it == align_estimate(gt, 5)
       IN  /\ it.status = "row"
           /\ \A c \in Channels :
                /\ aligned_row(gt, it.min_idx, 5).y[c].den # 0
                /\ aligned_row(gt, it.min_idx, 5).y[c].num
                     = 50 * aligned_row(gt, it.min_idx, 5).y[c].den

C9_Witness ==
    /\ Len(actual_vicon_np) = 2
    /\ actual_vicon_np[1].t + 1 < actual_vicon_np[2].t
    /\ actual_vicon_np[1].y # actual_vicon_np[2].y
    /\ \E k \in 1..Len(iter_log) :
         /\ actual_vicon_np[1].t < iter_log[k].x
         /\ iter_log[k].x < actual_vicon_np[2].t
         /\ iter_log[k].status = "row"

\* C10: for every tag index in 0..107 the result is 4 points with z = 0,
\* and the y of each corner grows from one column to the next by 304 mm,
\* and by 26 mm more into column 3 and into column 6.
C10_CornersPlanarColumnPitch ==
    (pc = "done" /\ april_tag_index \in 0..107) =>
        /\ Len(object_points) = 4
        /\ \A k \in 1..4 :
             /\ Len(object_points[k]) = 3
             /\ object_points[k][3] = 0
        /\ (april_tag_index \div 12 < 8) =>
             \A k \in 1..4 :
                get_corners_world_frame(april_tag_index + 12)[k][2]
                  - object_points[k][2]
                = IF (april_tag_index \div 12) + 1 \in {3, 6} THEN 304 + 26 ELSE 304

C10_Witness ==
    /\ pc = "done"
    /\ april_tag_index \div 12 = 5
    /\ object_points[1][2] = (5 * 304) + 26

\* C11: for a tag index whose column or row is outside the 12 x 9 grid
\* (index below 0 or above 107) get_corners_world_frame fails with
\* InvalidTagIndex and returns no corners.
C11_InvalidTagIndexRejected ==
    (pc = "done" /\ april_tag_index \notin 0..107) =>
        /\ outcome = "InvalidTagIndex"
        /\ object_points = None

\* C13: for every tag id in 0..107 generate_tag_corners()[id] is the same
\* ordered 4-tuple of points as get_corners_world_frame(id).
C13_LayoutsAgree ==
    (pc = "done" /\ tag_corners_world # None /\ april_tag_index \in 0..107) =>
        tag_corners_world[april_tag_index] = object_points

\* C12: with at least 2 aligned pairs whose ground-truth value equals the
\* estimate value in all six channels, the covariance is the zero matrix,
\* it is reported symmetric, and it is reported not positive definite.
C12_ZeroErrorCovariance ==
    (/\ pc = "done"
     /\ Len(diff_matrix) >= 2
     /\ \A k \in 1..Len(diff_matrix) : \A c \in Channels :
          /\ actual_vicon_aligned_np[k].y[c].den # 0
          /\ actual_vicon_aligned_np[k].y[c].num
               = results_np[k].y[c] * actual_vicon_aligned_np[k].y[c].den) =>
        /\ outcome = "ok"
        /\ \A a \in Channels : \A b \in Channels :
             cov_matrix[a][b].num = 0 /\ cov_matrix[a][b].den # 0
        /\ printed = {"Covariance matrix is symmetric.",
                      "Covariance matrix is not positive definite."}

C12_Witness ==
    /\ pc = "done"
    /\ Len(diff_matrix) >= 2
    /\ \A k \in 1..Len(diff_matrix) : \A c \in Channels :
         /\ actual_vicon_aligned_np[k].y[c].den # 0
         /\ results_np[k].y[c] # 0
         /\ actual_vicon_aligned_np[k].y[c].num
              = results_np[k].y[c] * actual_vicon_aligned_np[k].y[c].den
    /\ "Covariance matrix is not positive definite." \in printed

\* C14: for a ground truth of at least 2 samples, every iteration that is
\* not skipped reads its endpoints min_idx and min_idx+1 within 0..length-1.
C14_EndpointsInRange ==
    \A k \in 1..Len(iter_log) :
        (Len(actual_vicon_np) >= 2 /\ iter_log[k].status # "skipped") =>
            /\ iter_log[k].status = "row"
            /\ 0 <= iter_log[k].min_idx
            /\ iter_log[k].min_idx + 1 <= Len(actual_vicon_np) - 1

C14_Witness ==
    \E k \in 1..Len(iter_log) :
        /\ Len(actual_vicon_np) >= 2
        /\ iter_log[k].found = Len(actual_vicon_np) - 1
        /\ iter_log[k].min_idx = Len(actual_vicon_np) - 2
        /\ iter_log[k].status = "row"

====
